---- MODULE Spec2Model ----
(***************************************************************************)
(* Model of the Wayback keyword scanner of server/routes.ts: the snapshot  *)
(* index client (fetchSnapshots), the snapshot extractor (extractData) and *)
(* the GET /api/scan handler that streams ScanEvents over SSE.             *)
(*                                                                         *)
(* The handler is an async function: between two awaits it runs to         *)
(* completion, so every action below is one such synchronous segment.      *)
(* The request's 'close' callback can only run while the handler is        *)
(* suspended at an await.                                                  *)
(***************************************************************************)
EXTENDS Integers, Sequences, FiniteSets, TLC

VARIABLES
    pc,               \* where the handler is: idle, indexFetch, sleep, fetch,
                      \* done (returned after res.end), aborted (returned at the
                      \* disconnect check), rejected (400), unhandled (threw)
    req,              \* req.query of the request being handled
    data,             \* validation.data: targetDomain, targetYear, searchKeyword,
                      \* snapshotLimit
    resStatus,        \* res.status(...): 0 while never set
    resBody,          \* res.json(...) body: "" while never sent
    resHeaders,       \* headers set with res.setHeader
    resEnded,         \* number of times the response was ended
    closeListener,    \* req.on("close", ...) has been registered
    clientConnected,  \* the closure variable of the handler
    events,           \* the ScanEvents written with sendProgress, in order
    snapshots,        \* const snapshots
    i,                \* the loop variable of the snapshot loop
    foundAny,         \* let foundAny
    outbound,         \* the outbound requests issued with fetch, in order
    indexResp,        \* history: what the index request resolved to
    outcomes,         \* history: what each replay fetch resolved to
    origin,           \* history: the value of i + 1 when events[k] was written
                      \* (0 outside the snapshot loop)
    closedAt,         \* history: Len(events) when the 'close' callback ran, -1 before
    thrownAt,         \* history: where an unexpected failure was thrown: none,
                      \* setup (lines 180-194), top (inside the top-level try),
                      \* inner (inside the per-snapshot try)
    exArgs,           \* one call of extractData: html, keyword, timestamp, archiveUrl
    exPc,             \* the find-all loop that call is in: text, js, comment;
                      \* idle before the call, returned after it
    exItem,           \* the script element or comment the loop is on (1-based)
    exLastIndex,      \* lastIndex of the pattern of the loop
    exMatches,        \* const matches of the call
    exFound,          \* history: the zone, item and index of each match pushed
    scans,            \* two invocations of the handler at once: for each its
                      \* program point, inputs, events and history
    closure           \* the let-bound variables of the invocations, by the
                      \* binding that holds them: clientConnected, foundAny

handlerVars == <<pc, req, data, resStatus, resBody, resHeaders, resEnded,
                 closeListener, clientConnected, events, snapshots, i, foundAny,
                 outbound, indexResp, outcomes, origin, closedAt, thrownAt>>

extractVars == <<exArgs, exPc, exItem, exLastIndex, exMatches, exFound>>

pairVars == <<scans, closure>>

vars == <<handlerVars, extractVars, pairVars>>

(***************************************************************************)
(* Bounds of the model.                                                    *)
(***************************************************************************)
\* Most rows the index answers after its header row.
MaxRows == 2

(***************************************************************************)
(* Program constants.                                                      *)
(***************************************************************************)
CDX_API == "https://web.archive.org/cdx/search/cdx"
TIMEOUT == 60000
DefaultLimit == 100

\* The JavaScript value undefined (a missing query parameter, a missing cell).
Undefined == "<undefined>"

\* `${v}`: how a template literal renders a value.
TemplateStr(v) == IF v = Undefined THEN "undefined" ELSE v

Digit == <<"1", "2", "3", "4", "5", "6", "7", "8", "9">>

\* Number.prototype.toString for a natural number.
RECURSIVE NumToString(_)
NumToString(n) ==
    IF n = 0 THEN "0"
    ELSE IF n < 10 THEN Digit[n]
    ELSE NumToString(n \div 10) \o (IF n % 10 = 0 THEN "0" ELSE Digit[n % 10])

\* Text that is searched is a sequence of one-character strings.
RECURSIVE Join(_)
Join(chars) == IF chars = <<>> THEN "" ELSE Head(chars) \o Join(Tail(chars))

(***************************************************************************)
(* The inbound request.                                                    *)
(***************************************************************************)
QDomains == {Undefined, "", "example.com"}
QYears == {Undefined, "2020", "20"}
QKeywords == {<<>>, <<"a">>}
QLimits == {Undefined, "0", "1", "abc"}

Queries == [domain : QDomains, year : QYears, keyword : QKeywords, limit : QLimits]

NoQuery == [domain |-> Undefined, year |-> Undefined, keyword |-> <<>>, limit |-> Undefined]

\* parseInt(s) on the limit strings of the model: NaN is [nan |-> TRUE].
parseInt(s) ==
    CASE s = "0" -> [nan |-> FALSE, val |-> 0]
      [] s = "1" -> [nan |-> FALSE, val |-> 1]
      [] OTHER -> [nan |-> TRUE, val |-> 0]

\* Truthiness of a query-string value: undefined and "" are falsy.
Truthy(s) == s # Undefined /\ s # ""

\* The object given to scanRequestSchema.safeParse.
ParseInput(q) ==
    [domain |-> q.domain, year |-> q.year, keyword |-> q.keyword,
     limit |-> IF Truthy(q.limit) THEN parseInt(q.limit)
               ELSE [nan |-> FALSE, val |-> DefaultLimit]]

\* scanRequestSchema of @shared/schema: domain and keyword non-empty strings,
\* year an optional four-character year, limit a positive integer.
scanRequestSchema(in) ==
    [success |-> /\ in.domain # Undefined /\ in.domain # ""
                 /\ in.keyword # <<>>
                 /\ (in.year = Undefined \/ Len(in.year) = 4)
                 /\ ~in.limit.nan /\ in.limit.val > 0,
     data |-> [domain |-> in.domain, year |-> in.year, keyword |-> in.keyword,
               limit |-> in.limit.val]]

\* The validation result read the wrong way round.
IsRejected_Inverted(validation) == validation.success

\* if (!validation.success) { res.status(400).json(...); return; }
IsRejected(validation) == ~validation.success

(***************************************************************************)
(* The snapshot index client.                                              *)
(***************************************************************************)
HeaderRow == [iterable |-> TRUE, cells |-> <<"timestamp", "original">>]

\* A row of the index's JSON body: an array of cells, or a value that cannot
\* be destructured as an array (null, a number).
BodyRows ==
    { [iterable |-> TRUE, cells |-> <<"20200101", "http://example.com/">>],
      [iterable |-> TRUE, cells |-> <<"20200202", "http://example.com/a">>],
      [iterable |-> TRUE, cells |-> <<"20200101">>],
      [iterable |-> FALSE, cells |-> <<>>] }

RowSeqs == UNION { [1..n -> BodyRows] : n \in 0..MaxRows }

\* What the index request resolves to: a rejected fetch, a timeout, a
\* non-success status, a body that is not JSON, JSON that is not an array,
\* or a JSON array of rows (empty, or a header row and the rows after it).
IndexResponses ==
    { [kind |-> k, rows |-> <<>>] :
          k \in {"reject", "timeout", "status", "badjson", "nonarray", "array"} }
    \cup { [kind |-> "array", rows |-> <<HeaderRow>> \o rs] : rs \in RowSeqs }

\* ([timestamp, original]) => ({ timestamp, original })
RowToSnapshot(row) ==
    [timestamp |-> IF Len(row.cells) >= 1 THEN row.cells[1] ELSE Undefined,
     original |-> IF Len(row.cells) >= 2 THEN row.cells[2] ELSE Undefined]

\* fetchSnapshots, from the resolution of its fetch on: every throw inside
\* the try (fetch rejection, !response.ok, response.json(), destructuring a
\* row that is not iterable) lands in the catch, which returns [].
fetchSnapshots(resp) ==
    IF resp.kind # "array" THEN <<>>
    ELSE IF Len(resp.rows) <= 1 THEN <<>>
    ELSE IF \E k \in 2..Len(resp.rows) : ~resp.rows[k].iterable THEN <<>>
    ELSE [k \in 1..(Len(resp.rows) - 1) |-> RowToSnapshot(resp.rows[k + 1])]

\* The query fetchSnapshots sends to the index.
IndexRequest(domain, year, limit) ==
    [to |-> CDX_API, url |-> domain, output |-> "json",
     fl |-> "timestamp,original", filter |-> "statuscode:200",
     limit |-> NumToString(limit),
     from |-> IF year # Undefined THEN year \o "0101" ELSE Undefined,
     until |-> IF year # Undefined THEN year \o "1231" ELSE Undefined,
     timeout |-> TIMEOUT]

(***************************************************************************)
(* The snapshot extractor.  A page is given as cheerio presents it after   *)
(* the cleanup of lines 64-65: the text of its body, its script elements   *)
(* (archive marks a src that references archive.org) and the bodies of the *)
(* comments of its serialisation, in document order.                       *)
(***************************************************************************)
ContextLen == 30

Min(S) == CHOOSE x \in S : \A y \in S : x <= y

IsSpace(c) == c \in {" ", "\n", "\t"}

\* The characters String.prototype.replace(/[.*+?^${}()|[\]\\]/g, ...) escapes.
RegexMeta == {".", "*", "+", "?", "^", "$", "{", "}", "(", ")", "|", "[", "]", "\\"}

\* A keyword that goes into the pattern as it is.
escapeKeyword_NoEscape(kw) == kw

\* keyword.replace(/[.*+?^${}()|[\]\\]/g, '\\$&')
RECURSIVE escapeKeyword(_)
escapeKeyword(kw) ==
    IF kw = <<>> THEN <<>>
    ELSE (IF Head(kw) \in RegexMeta THEN <<"\\", Head(kw)>> ELSE <<Head(kw)>>)
         \o escapeKeyword(Tail(kw))

\* new RegExp(source, 'gi') for the sources the model builds: a backslash
\* makes the next character a literal, an unescaped dot matches any
\* character but a line break, any other character matches itself.
RECURSIVE CompileRegExp(_)
CompileRegExp(source) ==
    IF source = <<>> THEN <<>>
    ELSE IF Head(source) = "\\" /\ Len(source) >= 2
         THEN <<[any |-> FALSE, ch |-> source[2]]>> \o CompileRegExp(Tail(Tail(source)))
         ELSE <<[any |-> Head(source) = ".", ch |-> Head(source)]>>
              \o CompileRegExp(Tail(source))

\* Case folding of the 'i' flag on the letters of the model.
Fold(c) ==
    CASE c = "A" -> "a"
      [] c = "B" -> "b"
      [] OTHER -> c

\* The pattern matches text at the 0-based position p.
MatchAt(text, pattern, p) ==
    /\ p + Len(pattern) <= Len(text)
    /\ \A k \in 1..Len(pattern) :
          IF pattern[k].any THEN text[p + k] # "\n"
          ELSE Fold(text[p + k]) = Fold(pattern[k].ch)

\* pattern.exec(text) of a global pattern whose lastIndex is lastIndex: the
\* index of the first match that starts at lastIndex or later, -1 for null.
RegExpExec(text, pattern, lastIndex) ==
    LET found == {p \in lastIndex..Len(text) : MatchAt(text, pattern, p)}
    IN  IF lastIndex > Len(text) \/ found = {} THEN -1 ELSE Min(found)

\* A cursor that is left where exec put it, also after an empty match.
LastIndexAfter_NoAdvance(index, length) == index + length

\* A cursor that goes on one position after the start of the match.
LastIndexAfter_Overlapping(index, length) == index + 1

\* lastIndex after a match of the given length at index: exec sets it to the
\* end of the match; if (match.index === pattern.lastIndex) pattern.lastIndex++
LastIndexAfter(index, length) ==
    IF index = index + length THEN index + length + 1 ELSE index + length

\* while ((match = pattern.exec(text)) !== null) { ...;
\*   if (match.index === pattern.lastIndex) pattern.lastIndex++; }
\* the 0-based indexes of the matches, from lastIndex on.
RECURSIVE FindAll(_, _, _)
FindAll(text, pattern, lastIndex) ==
    LET found == {p \in lastIndex..Len(text) : MatchAt(text, pattern, p)}
    IN  IF lastIndex > Len(text) \/ found = {} THEN <<>>
        ELSE LET index == Min(found)
                 after == index + Len(pattern)
             IN  <<index>> \o FindAll(text, pattern,
                                      IF index = after THEN after + 1 ELSE after)

\* String.prototype.substring(start, end) for 0 <= start <= end <= length.
Substring(text, start, end) == SubSeq(text, start + 1, end)

\* String.prototype.trim()
RECURSIVE TrimStart(_)
TrimStart(text) ==
    IF text # <<>> /\ IsSpace(Head(text)) THEN TrimStart(Tail(text)) ELSE text

RECURSIVE TrimEnd(_)
TrimEnd(text) ==
    IF text # <<>> /\ IsSpace(text[Len(text)])
    THEN TrimEnd(SubSeq(text, 1, Len(text) - 1)) ELSE text

Trim(text) == TrimEnd(TrimStart(text))

\* String.prototype.replace(/\s+/g, ' ')
RECURSIVE CollapseSpaces(_)
CollapseSpaces(text) ==
    IF text = <<>> THEN <<>>
    ELSE IF IsSpace(Head(text))
         THEN <<" ">> \o CollapseSpaces(TrimStart(text))
         ELSE <<Head(text)>> \o CollapseSpaces(Tail(text))

\* String.prototype.replace(/\n/g, " ")
NewlinesToSpaces(text) == [k \in 1..Len(text) |-> IF text[k] = "\n" THEN " " ELSE text[k]]

Ellipsis == <<".", ".", ".">>

\* The characters around the match at index, ContextLen on each side.
Context(text, keyword, index) ==
    Substring(text,
              IF index - ContextLen > 0 THEN index - ContextLen ELSE 0,
              IF index + Len(keyword) + ContextLen < Len(text)
              THEN index + Len(keyword) + ContextLen ELSE Len(text))

ScanMatch(timestamp, archiveUrl, matchType, snippet) ==
    [timestamp |-> timestamp, archiveUrl |-> archiveUrl,
     matchType |-> matchType, snippet |-> Join(snippet)]

\* 2. the TEXT zone
TextMatches(page, keyword, timestamp, archiveUrl) ==
    LET textContent == Trim(CollapseSpaces(page.text))
        hits == FindAll(textContent, CompileRegExp(escapeKeyword(keyword)), 0)
    IN  [k \in 1..Len(hits) |->
            ScanMatch(timestamp, archiveUrl, "TEXT",
                Ellipsis \o NewlinesToSpaces(Context(textContent, keyword, hits[k]))
                         \o Ellipsis)]

\* 3. the JS zone: one script element
ScriptMatches(scriptContent, keyword, timestamp, archiveUrl) ==
    LET hits == FindAll(scriptContent, CompileRegExp(escapeKeyword(keyword)), 0)
    IN  IF scriptContent = <<>> THEN <<>>
        ELSE [k \in 1..Len(hits) |->
                ScanMatch(timestamp, archiveUrl, "JS",
                    Ellipsis
                    \o Trim(NewlinesToSpaces(Context(scriptContent, keyword, hits[k])))
                    \o Ellipsis)]

\* $('script[src*="archive.org"]').remove(): the script elements that are left
RECURSIVE KeptScripts(_)
KeptScripts(scripts) ==
    IF scripts = <<>> THEN <<>>
    ELSE (IF Head(scripts).archive THEN <<>> ELSE <<Head(scripts).content>>)
         \o KeptScripts(Tail(scripts))

RECURSIVE AllScriptMatches(_, _, _, _)
AllScriptMatches(contents, keyword, timestamp, archiveUrl) ==
    IF contents = <<>> THEN <<>>
    ELSE ScriptMatches(Head(contents), keyword, timestamp, archiveUrl)
         \o AllScriptMatches(Tail(contents), keyword, timestamp, archiveUrl)

ArchivedMarker ==
    <<"F", "I", "L", "E", " ", "A", "R", "C", "H", "I", "V", "E", "D", " ", "O", "N">>

\* String.prototype.includes
Includes(text, needle) ==
    \E p \in 0..Len(text) :
        /\ p + Len(needle) <= Len(text)
        /\ \A k \in 1..Len(needle) : text[p + k] = needle[k]

\* 4. the COMMENT zone: one comment
CommentMatches(comment, keyword, timestamp, archiveUrl) ==
    LET hits == FindAll(comment, CompileRegExp(escapeKeyword(keyword)), 0)
    IN  IF Includes(comment, ArchivedMarker) THEN <<>>
        ELSE [k \in 1..Len(hits) |->
                ScanMatch(timestamp, archiveUrl, "COMMENT",
                    Ellipsis \o Trim(Context(comment, keyword, hits[k])) \o Ellipsis)]

RECURSIVE AllCommentMatches(_, _, _, _)
AllCommentMatches(comments, keyword, timestamp, archiveUrl) ==
    IF comments = <<>> THEN <<>>
    ELSE CommentMatches(Head(comments), keyword, timestamp, archiveUrl)
         \o AllCommentMatches(Tail(comments), keyword, timestamp, archiveUrl)

extractData(page, keyword, timestamp, archiveUrl) ==
    TextMatches(page, keyword, timestamp, archiveUrl)
    \o AllScriptMatches(KeptScripts(page.scripts), keyword, timestamp, archiveUrl)
    \o AllCommentMatches(page.comments, keyword, timestamp, archiveUrl)

\* The pages the replay endpoint serves in the model.
PageNone == [text |-> <<"b", " ", "b">>, scripts |-> <<>>, comments |-> <<>>]

PageText == [text |-> <<" ", "A", " ", "\n", "b">>, scripts |-> <<>>, comments |-> <<>>]

PageAll ==
    [text |-> <<"b", "a">>,
     scripts |-> << [archive |-> TRUE, content |-> <<"a">>],
                    [archive |-> FALSE, content |-> <<"x", "=", "a", "\n">>] >>,
     comments |-> << ArchivedMarker \o <<" ", "a">>, <<" ", "a", "b", " ">> >>]

Pages == {PageNone, PageText, PageAll}

(***************************************************************************)
(* The scan orchestrator: GET /api/scan.                                   *)
(***************************************************************************)
ARCHIVE_WEB == "https://web.archive.org/web/"

\* A replay URL with its two parts in the wrong order.
archiveUrlOf_Swapped(snapshot) ==
    ARCHIVE_WEB \o TemplateStr(snapshot.original) \o "/" \o TemplateStr(snapshot.timestamp)

\* `https://web.archive.org/web/${timestamp}/${original}`
archiveUrlOf(snapshot) ==
    ARCHIVE_WEB \o TemplateStr(snapshot.timestamp) \o "/" \o TemplateStr(snapshot.original)

\* The replay request of one snapshot.
ReplayRequest(snapshot) == [to |-> archiveUrlOf(snapshot), timeout |-> TIMEOUT]

\* What a replay fetch resolves to: a rejected fetch, a timeout, a
\* non-success status, a body that cannot be read, a page on which the
\* extraction throws, or a page.
ReplayFailures == {"reject", "timeout", "status", "textfail", "extractfail"}

ReplayOutcomes ==
    { [kind |-> k, page |-> PageNone] : k \in ReplayFailures }
    \cup { [kind |-> "ok", page |-> p] : p \in Pages }

\* The ScanEvents.
ContactingEvent(domain) ==
    [type |-> "progress",
     message |-> "Contacting Wayback Machine for: " \o domain \o "..."]

NoSnapshotsEvent ==
    [type |-> "complete", message |-> "No snapshots found for this criteria."]

AnalyzingEvent(snaps, keyword) ==
    [type |-> "progress",
     message |-> "Analyzing " \o NumToString(Len(snaps)) \o " snapshots for '"
                 \o Join(keyword) \o "'...",
     currentSnapshot |-> 0,
     totalSnapshots |-> Len(snaps)]

\* A progress event that counts the snapshots from 0.
ScanningEvent_ZeroBased(snaps, n) ==
    [type |-> "progress",
     message |-> "Scanning snapshot: " \o TemplateStr(snaps[n + 1].timestamp) \o "...",
     currentSnapshot |-> n,
     totalSnapshots |-> Len(snaps)]

\* The progress event of the iteration with loop variable n (0-based).
ScanningEvent(snaps, n) ==
    [type |-> "progress",
     message |-> "Scanning snapshot: " \o TemplateStr(snaps[n + 1].timestamp) \o "...",
     currentSnapshot |-> n + 1,
     totalSnapshots |-> Len(snaps)]

MatchEvent(match) == [type |-> "match", match |-> match]

\* if (foundAny) "Scan complete." else "Scan finished. No matches found."
CompletionMessage(found) ==
    IF found THEN "Scan complete." ELSE "Scan finished. No matches found."

CompleteEvent(found) == [type |-> "complete", message |-> CompletionMessage(found)]

\* error instanceof Error ? error.message : "An unknown error occurred"
ErrorEvent(thrown) ==
    [type |-> "error",
     error |-> IF thrown.isError THEN thrown.message ELSE "An unknown error occurred"]

\* The values an unexpected failure throws.
Thrown == { [isError |-> TRUE, message |-> "write failed"],
            [isError |-> FALSE, message |-> ""] }

SSEHeaders == { <<"Content-Type", "text/event-stream">>,
                <<"Cache-Control", "no-cache">>,
                <<"Connection", "keep-alive">> }

\* A disconnect that is never looked at.
ShouldAbort_Never(connected) == FALSE

\* if (!clientConnected) return;
ShouldAbort(connected) == ~connected

\* A foundAny that is never set.
FoundAfter_NeverSet(found, matches) == found

\* if (matches.length > 0) foundAny = true;
FoundAfter(found, matches) == found \/ Len(matches) > 0

\* The match events of one snapshot, in the order extractData returns them.
MatchEvents(matches) == [k \in 1..Len(matches) |-> MatchEvent(matches[k])]

\* The body of the inner try from the resolution of the replay fetch on:
\* the matches that are emitted.  A rejected fetch, a timeout, a body that
\* cannot be read and a throwing extraction land in the inner catch; a
\* non-success status skips the extraction.
SnapshotMatches(outcome, keyword, snapshot) ==
    IF outcome.kind = "ok"
    THEN extractData(outcome.page, keyword, snapshot.timestamp, archiveUrlOf(snapshot))
    ELSE <<>>

\* A loop that breaks at the first failed snapshot.
NextIndex_BreakOnFailure(n, outcome) ==
    IF outcome.kind = "ok" THEN n + 1 ELSE MaxRows + 1

\* for (...; i++): the loop variable after the iteration with loop variable n.
\* The inner catch continues, so a failed snapshot advances it like any other.
NextIndex(n, outcome) == n + 1

\* An empty list that is not told apart.
NoSnapshots_NotChecked(snaps) == Len(snaps) < 0

\* if (snapshots.length === 0)
NoSnapshots(snaps) == Len(snaps) = 0

\* A loop that looks at the disconnect only after it has written the
\* snapshot's progress event.
LoopTop_CheckAfterProgress(snaps, n, connected, found) ==
    IF n < Len(snaps)
    THEN [pc |-> IF ~connected THEN "aborted" ELSE "sleep",
          writes |-> <<[type |-> "progress",
                        message |-> "Scanning snapshot: "
                                    \o TemplateStr(snaps[n + 1].timestamp) \o "...",
                        currentSnapshot |-> n + 1,
                        totalSnapshots |-> Len(snaps)]>>,
          origins |-> <<n + 1>>, ends |-> 0]
    ELSE [pc |-> "done",
          writes |-> <<[type |-> "complete",
                        message |-> IF found THEN "Scan complete."
                                    ELSE "Scan finished. No matches found."]>>,
          origins |-> <<0>>, ends |-> 1]

\* The loop from its condition on, with loop variable n: the events written
\* before the next await or return, the program point reached and whether
\* the response is ended.
LoopTop(snaps, n, connected, found) ==
    IF n < Len(snaps)
    THEN IF ShouldAbort(connected)
         THEN [pc |-> "aborted", writes |-> <<>>, origins |-> <<>>, ends |-> 0]
         ELSE [pc |-> "sleep", writes |-> <<ScanningEvent(snaps, n)>>,
               origins |-> <<n + 1>>, ends |-> 0]
    ELSE [pc |-> "done", writes |-> <<CompleteEvent(found)>>, origins |-> <<0>>,
          ends |-> 1]

\* A program point reached after one more write.
PrependWrite(event, top) ==
    [pc |-> top.pc, writes |-> <<event>> \o top.writes,
     origins |-> <<0>> \o top.origins, ends |-> top.ends]

\* A segment that goes on to the next snapshot before it has written the
\* matches of this one.
Segment_MatchesLate(inner, innerOrigin, top, k, thrown) ==
    [pc |-> top.pc, writes |-> top.writes \o inner,
     origins |-> top.origins \o [j \in 1..Len(inner) |-> innerOrigin],
     ends |-> top.ends, where |-> "none"]

\* A top-level catch that writes nothing.
Segment_SilentCatch(inner, innerOrigin, top, k, thrown) ==
    IF k = 0 \/ k > Len(inner) + Len(top.writes)
    THEN [pc |-> top.pc, writes |-> inner \o top.writes,
          origins |-> [j \in 1..Len(inner) |-> innerOrigin] \o top.origins,
          ends |-> top.ends, where |-> "none"]
    ELSE IF k <= Len(inner)
    THEN [pc |-> top.pc, writes |-> SubSeq(inner, 1, k - 1) \o top.writes,
          origins |-> [j \in 1..(k - 1) |-> innerOrigin] \o top.origins,
          ends |-> top.ends, where |-> "inner"]
    ELSE [pc |-> "done",
          writes |-> inner \o SubSeq(top.writes, 1, k - Len(inner) - 1),
          origins |-> [j \in 1..Len(inner) |-> innerOrigin]
                     \o SubSeq(top.origins, 1, k - Len(inner) - 1),
          ends |-> 1, where |-> "top"]

\* A synchronous segment that writes the events inner inside the
\* per-snapshot try and then reaches the program point top (a LoopTop
\* record).  k = 0: no write throws.  Otherwise the k-th write throws: inside
\* the per-snapshot try the inner catch continues with the next snapshot;
\* outside it the top-level catch writes the error event and the handler
\* ends the response.
Segment(inner, innerOrigin, top, k, thrown) ==
    LET nIn == Len(inner)
        nAll == nIn + Len(top.writes)
    IN  IF k = 0 \/ k > nAll
        THEN [pc |-> top.pc, writes |-> inner \o top.writes,
              origins |-> [j \in 1..nIn |-> innerOrigin] \o top.origins,
              ends |-> top.ends, where |-> "none"]
        ELSE IF k <= nIn
        THEN [pc |-> top.pc, writes |-> SubSeq(inner, 1, k - 1) \o top.writes,
              origins |-> [j \in 1..(k - 1) |-> innerOrigin] \o top.origins,
              ends |-> top.ends, where |-> "inner"]
        ELSE [pc |-> "done",
              writes |-> inner \o SubSeq(top.writes, 1, k - nIn - 1)
                        \o <<ErrorEvent(thrown)>>,
              origins |-> [j \in 1..nIn |-> innerOrigin]
                         \o SubSeq(top.origins, 1, k - nIn - 1) \o <<0>>,
              ends |-> 1, where |-> "top"]

NoData == [domain |-> "", year |-> Undefined, keyword |-> <<>>, limit |-> 0]

\* No call of extractData is under way.
NoCall == [html |-> [text |-> <<>>, scripts |-> <<>>, comments |-> <<>>],
           keyword |-> <<>>, timestamp |-> "", archiveUrl |-> ""]

ExtractIdle ==
    /\ exArgs = NoCall
    /\ exPc = "idle"
    /\ exItem = 0
    /\ exLastIndex = 0
    /\ exMatches = <<>>
    /\ exFound = <<>>

\* The two invocations of the handler that run at once.
ScanIds == {1, 2}

\* An invocation that has not been called yet.
IdleScan ==
    [pc |-> "idle", data |-> NoData, events |-> <<>>, snapshots |-> <<>>, i |-> 0,
     outcomes |-> <<>>, index |-> [kind |-> "none", rows |-> <<>>], closedAt |-> -1]

\* let clientConnected = true; let foundAny = false;
FreshBinding == [clientConnected |-> TRUE, foundAny |-> FALSE]

PairIdle ==
    /\ scans = [s \in ScanIds |-> IdleScan]
    /\ closure = [c \in ScanIds |-> FreshBinding]

HandlerIdle ==
    /\ pc = "idle"
    /\ req = NoQuery
    /\ data = NoData
    /\ resStatus = 0
    /\ resBody = <<>>
    /\ resHeaders = {}
    /\ resEnded = 0
    /\ closeListener = FALSE
    /\ clientConnected = TRUE
    /\ events = <<>>
    /\ snapshots = <<>>
    /\ i = 0
    /\ foundAny = FALSE
    /\ outbound = <<>>
    /\ indexResp = [kind |-> "none", rows |-> <<>>]
    /\ outcomes = <<>>
    /\ origin = <<>>
    /\ closedAt = -1
    /\ thrownAt = "none"

Init == HandlerIdle /\ ExtractIdle /\ PairIdle

\* Lines 162-203: validation, SSE set-up, the first progress event and the
\* call of fetchSnapshots up to its fetch.  k = 1: the write of the first
\* progress event throws; k = 2: fetchSnapshots rejects before its own try.
HandleRequest(q, k, thrown) ==
    /\ pc = "idle"
    /\ req' = q
    /\ LET validation == scanRequestSchema(ParseInput(q))
       IN  IF IsRejected(validation)
           THEN /\ k = 0
                /\ resStatus' = 400
                /\ resBody' = <<[error |-> "Invalid parameters"]>>
                /\ resEnded' = resEnded + 1
                /\ pc' = "rejected"
                /\ UNCHANGED <<data, resHeaders, closeListener, clientConnected,
                               events, origin, outbound, thrownAt>>
           ELSE /\ data' = validation.data
                /\ resHeaders' = SSEHeaders
                /\ closeListener' = TRUE
                /\ clientConnected' = TRUE
                /\ UNCHANGED <<resStatus, resBody>>
                /\ CASE k = 0 ->
                          /\ events' = <<ContactingEvent(validation.data.domain)>>
                          /\ origin' = <<0>>
                          /\ outbound' = <<IndexRequest(validation.data.domain,
                                                        validation.data.year,
                                                        validation.data.limit)>>
                          /\ pc' = "indexFetch"
                          /\ UNCHANGED <<resEnded, thrownAt>>
                     [] k = 1 ->
                          /\ events' = <<ErrorEvent(thrown)>>
                          /\ origin' = <<0>>
                          /\ resEnded' = resEnded + 1
                          /\ pc' = "done"
                          /\ thrownAt' = "top"
                          /\ UNCHANGED outbound
                     [] OTHER ->
                          /\ events' = <<ContactingEvent(validation.data.domain),
                                         ErrorEvent(thrown)>>
                          /\ origin' = <<0, 0>>
                          /\ resEnded' = resEnded + 1
                          /\ pc' = "done"
                          /\ thrownAt' = "top"
                          /\ UNCHANGED outbound
    /\ UNCHANGED <<snapshots, i, foundAny, indexResp, outcomes, closedAt>>
    /\ UNCHANGED <<extractVars, pairVars>>

\* Lines 162-194 throw (the validation, res.setHeader, req.on): they are
\* outside the try, so the handler's promise rejects and nothing is written.
SetupThrows(q) ==
    /\ pc = "idle"
    /\ req' = q
    /\ pc' = "unhandled"
    /\ thrownAt' = "setup"
    /\ UNCHANGED <<data, resStatus, resBody, resHeaders, resEnded, closeListener,
                   clientConnected, events, snapshots, i, foundAny, outbound,
                   indexResp, outcomes, origin, closedAt>>
    /\ UNCHANGED <<extractVars, pairVars>>

\* No failure.
NoThrow == [isError |-> FALSE, message |-> ""]

\* What a segment leaves behind: the events it wrote, whether it ended the
\* response, and where the handler is.
Commit(seg) ==
    /\ events' = events \o seg.writes
    /\ origin' = origin \o seg.origins
    /\ resEnded' = resEnded + seg.ends
    /\ pc' = seg.pc
    /\ thrownAt' = IF seg.where = "none" THEN thrownAt ELSE seg.where

\* An empty-list branch whose return is missing: the handler goes on to the
\* loop, the completion and the res.end() of line 292.
AfterIndex_NoReturn(snaps, connected, keyword) ==
    IF Len(snaps) = 0
    THEN [pc |-> "done",
          writes |-> <<NoSnapshotsEvent, AnalyzingEvent(snaps, keyword),
                       CompleteEvent(FALSE)>>,
          origins |-> <<0, 0, 0>>, ends |-> 2]
    ELSE PrependWrite(AnalyzingEvent(snaps, keyword), LoopTop(snaps, 0, connected, FALSE))

\* The segment after fetchSnapshots has returned snaps: the empty list ends
\* the scan, any other starts the loop.
AfterIndex(snaps, connected, keyword) ==
    IF NoSnapshots(snaps)
    THEN [pc |-> "done", writes |-> <<NoSnapshotsEvent>>, origins |-> <<0>>, ends |-> 1]
    ELSE PrependWrite(AnalyzingEvent(snaps, keyword), LoopTop(snaps, 0, connected, FALSE))

\* The segment after the replay fetch of the snapshot with loop variable n
\* has resolved and its matches are known.
AfterReplay(snaps, n, outcome, matches, connected, found, k, thrown) ==
    Segment(MatchEvents(matches), n + 1,
            LoopTop(snaps, NextIndex(n, outcome), connected, FoundAfter(found, matches)),
            k, thrown)

\* The writes of the segment that follows the resolution of the index request.
IndexWrites(resp) ==
    Len(AfterIndex(fetchSnapshots(resp), clientConnected, data.keyword).writes)

\* The writes of the segment that follows the resolution of a replay fetch.
ReplayWrites(outcome) ==
    Len(AfterReplay(snapshots, i, outcome,
                    SnapshotMatches(outcome, data.keyword, snapshots[i + 1]),
                    clientConnected, foundAny, 0, NoThrow).writes)

\* Lines 203-239: fetchSnapshots returns; the empty list ends the scan, any
\* other starts the loop, which runs to the delay of the first snapshot.
IndexResolves(resp, k, thrown) ==
    /\ pc = "indexFetch"
    /\ k > 0 => thrownAt = "none"
    /\ indexResp' = resp
    /\ k <= IndexWrites(resp)
    /\ snapshots' = fetchSnapshots(resp)
    /\ Commit(Segment(<<>>, 0,
                      AfterIndex(fetchSnapshots(resp), clientConnected, data.keyword),
                      k, thrown))
    /\ i' = 0
    /\ foundAny' = FALSE
    /\ UNCHANGED <<req, data, resStatus, resBody, resHeaders, closeListener,
                   clientConnected, outbound, outcomes, closedAt>>
    /\ UNCHANGED <<extractVars, pairVars>>

\* A fetch that asks for the first snapshot again instead of the current one.
DelayEnds_RefetchFirst ==
    /\ pc = "sleep"
    /\ outbound' = Append(outbound, ReplayRequest(snapshots[1]))
    /\ pc' = "fetch"
    /\ UNCHANGED <<req, data, resStatus, resBody, resHeaders, resEnded,
                   closeListener, clientConnected, events, snapshots, i, foundAny,
                   indexResp, outcomes, origin, closedAt, thrownAt>>
    /\ UNCHANGED <<extractVars, pairVars>>

\* Lines 243-248: the politeness delay is over and the replay fetch is issued.
DelayEnds ==
    /\ pc = "sleep"
    /\ outbound' = Append(outbound, ReplayRequest(snapshots[i + 1]))
    /\ pc' = "fetch"
    /\ UNCHANGED <<req, data, resStatus, resBody, resHeaders, resEnded,
                   closeListener, clientConnected, events, snapshots, i, foundAny,
                   indexResp, outcomes, origin, closedAt, thrownAt>>
    /\ UNCHANGED <<extractVars, pairVars>>

\* The effect of the iteration of snapshots[i + 1] once its matches are known.
SnapshotDone(outcome, matches, k, thrown) ==
    /\ foundAny' = FoundAfter(foundAny, matches)
    /\ Commit(AfterReplay(snapshots, i, outcome, matches, clientConnected, foundAny,
                          k, thrown))

\* Lines 250-282 and 224-239: the replay fetch resolves, the matches are
\* emitted, and the loop goes on to the next snapshot's delay, to the
\* disconnect return or to the completion.
ReplayResolves(outcome, k, thrown) ==
    /\ pc = "fetch"
    /\ k > 0 => thrownAt = "none"
    /\ outcomes' = Append(outcomes, outcome.kind)
    /\ k <= ReplayWrites(outcome)
    /\ SnapshotDone(outcome, SnapshotMatches(outcome, data.keyword, snapshots[i + 1]),
                    k, thrown)
    /\ i' = NextIndex(i, outcome)
    /\ UNCHANGED <<req, data, resStatus, resBody, resHeaders, closeListener,
                   clientConnected, snapshots, outbound, indexResp, closedAt>>
    /\ UNCHANGED <<extractVars, pairVars>>

\* Lines 191-194: the 'close' callback, which runs while the handler is
\* suspended at an await.
ClientCloses ==
    /\ closeListener
    /\ clientConnected
    /\ pc \in {"indexFetch", "sleep", "fetch"}
    /\ clientConnected' = FALSE
    /\ closedAt' = Len(events)
    /\ UNCHANGED <<pc, req, data, resStatus, resBody, resHeaders, resEnded,
                   closeListener, events, snapshots, i, foundAny, outbound,
                   indexResp, outcomes, origin, thrownAt>>
    /\ UNCHANGED <<extractVars, pairVars>>

Request == \E q \in Queries : HandleRequest(q, 0, NoThrow)

IndexResolve == \E resp \in IndexResponses : IndexResolves(resp, 0, NoThrow)

ReplayResolve == \E outcome \in ReplayOutcomes : ReplayResolves(outcome, 0, NoThrow)

Next == Request \/ IndexResolve \/ DelayEnds \/ ReplayResolve \/ ClientCloses

Spec == Init /\ [][Next]_vars

(***************************************************************************)
(* The scan with one unexpected failure: the set-up or one write of an     *)
(* event throws.                                                           *)
(***************************************************************************)
RequestThrows ==
    \E q \in Queries, k \in 1..2, thrown \in Thrown : HandleRequest(q, k, thrown)

SetupThrow == \E q \in Queries : SetupThrows(q)

IndexResolveThrows ==
    /\ pc = "indexFetch"
    /\ \E resp \in IndexResponses :
          \E k \in 1..IndexWrites(resp), thrown \in Thrown :
              IndexResolves(resp, k, thrown)

ReplayResolveThrows ==
    /\ pc = "fetch"
    /\ \E outcome \in ReplayOutcomes :
          \E k \in 1..ReplayWrites(outcome), thrown \in Thrown :
              ReplayResolves(outcome, k, thrown)

NextFault ==
    \/ Next
    \/ RequestThrows
    \/ SetupThrow
    \/ IndexResolveThrows
    \/ ReplayResolveThrows

SpecFault == Init /\ [][NextFault]_vars

(***************************************************************************)
(* The scan whose awaits are all resumed: every outbound request resolves  *)
(* or times out and every timer fires.  The index answers a failure, a     *)
(* header row alone, one row of any kind or up to MaxRows well-formed rows. *)
(***************************************************************************)
WellFormedRows == {row \in BodyRows : row.iterable /\ Len(row.cells) = 2}

LiveResponses ==
    { resp \in IndexResponses :
          \/ Len(resp.rows) <= 2
          \/ \A k \in 2..Len(resp.rows) : resp.rows[k] \in WellFormedRows }

IndexResolveLive == \E resp \in LiveResponses : IndexResolves(resp, 0, NoThrow)

IndexResolveLiveThrows ==
    /\ pc = "indexFetch"
    /\ \E resp \in LiveResponses :
          \E k \in 1..IndexWrites(resp), thrown \in Thrown :
              IndexResolves(resp, k, thrown)

NextLive ==
    \/ Request
    \/ IndexResolveLive
    \/ DelayEnds
    \/ ReplayResolve
    \/ ClientCloses
    \/ RequestThrows
    \/ IndexResolveLiveThrows
    \/ ReplayResolveThrows

AwaitsResume ==
    /\ WF_vars(IndexResolveLive)
    /\ WF_vars(DelayEnds)
    /\ WF_vars(ReplayResolve)

SpecLive == Init /\ [][NextLive]_vars /\ AwaitsResume

(***************************************************************************)
(* Two invocations of the handler at once.  Node runs one synchronous      *)
(* segment at a time, so the segments of the two scans interleave at their *)
(* awaits.  clientConnected and foundAny are let-bound inside the handler  *)
(* (lines 189 and 221): every invocation creates its own bindings.         *)
(***************************************************************************)
\* Bindings declared at module level: one for all invocations.
Cell_ModuleLevel(s) == 1

\* The binding that invocation s reads and writes.
Cell(s) == s

Flags(s) == closure[Cell(s)]

\* The request of each caller: both pass the validation.
PairQuery(s) ==
    [domain |-> "example.com", year |-> IF s = 1 THEN Undefined ELSE "2020",
     keyword |-> <<"a">>, limit |-> Undefined]

PairRow == [iterable |-> TRUE, cells |-> <<"20200101", "http://example.com/">>]

PairResponses ==
    { resp \in IndexResponses :
          \/ resp.kind = "reject"
          \/ resp.kind = "array" /\ Len(resp.rows) >= 1
             /\ \A k \in 2..Len(resp.rows) : resp.rows[k] = PairRow }

PairOutcomes ==
    { outcome \in ReplayOutcomes :
          \/ outcome.kind = "reject"
          \/ outcome.kind = "ok" /\ outcome.page \in {PageNone, PageAll} }

\* Lines 162-203 in invocation s.
CallHandler(s) ==
    /\ scans[s].pc = "idle"
    /\ LET validation == scanRequestSchema(ParseInput(PairQuery(s)))
       IN  /\ ~IsRejected(validation)
           /\ scans' = [scans EXCEPT
                  ![s].pc = "indexFetch",
                  ![s].data = validation.data,
                  ![s].events = <<ContactingEvent(validation.data.domain)>>]
    /\ closure' = [closure EXCEPT ![Cell(s)].clientConnected = TRUE]
    /\ UNCHANGED <<handlerVars, extractVars>>

\* The 'close' callback of invocation s ran after this many of its segments
\* had followed an await: 0 while the index request is in flight.
SegmentsDone(scan) == IF scan.pc = "indexFetch" THEN 0 ELSE Len(scan.outcomes) + 1

\* Lines 191-194 in invocation s.
ClientClosesIn(s) ==
    /\ scans[s].pc \in {"indexFetch", "sleep", "fetch"}
    /\ scans[s].closedAt = -1
    /\ closure' = [closure EXCEPT ![Cell(s)].clientConnected = FALSE]
    /\ scans' = [scans EXCEPT ![s].closedAt = SegmentsDone(scans[s])]
    /\ UNCHANGED <<handlerVars, extractVars>>

\* Lines 203-239 in invocation s.
IndexResolvesIn(s, resp, top) ==
    /\ scans[s].pc = "indexFetch"
    /\ scans' = [scans EXCEPT
           ![s].pc = top.pc,
           ![s].index = resp,
           ![s].snapshots = fetchSnapshots(resp),
           ![s].i = 0,
           ![s].events = @ \o top.writes]
    /\ closure' = IF NoSnapshots(fetchSnapshots(resp)) THEN closure
                  ELSE [closure EXCEPT ![Cell(s)].foundAny = FALSE]
    /\ UNCHANGED <<handlerVars, extractVars>>

\* Lines 243-248 in invocation s.
DelayEndsIn(s) ==
    /\ scans[s].pc = "sleep"
    /\ scans' = [scans EXCEPT ![s].pc = "fetch"]
    /\ UNCHANGED <<closure, handlerVars, extractVars>>

\* Lines 250-282 and 224-239 in invocation s.
ReplayResolvesIn(s, outcome, matches) ==
    /\ scans[s].pc = "fetch"
    /\ LET seg == AfterReplay(scans[s].snapshots, scans[s].i, outcome, matches,
                              Flags(s).clientConnected, Flags(s).foundAny, 0, NoThrow)
       IN  scans' = [scans EXCEPT
              ![s].pc = seg.pc,
              ![s].i = NextIndex(scans[s].i, outcome),
              ![s].outcomes = Append(@, outcome),
              ![s].events = @ \o seg.writes]
    /\ closure' = [closure EXCEPT
           ![Cell(s)].foundAny = FoundAfter(Flags(s).foundAny, matches)]
    /\ UNCHANGED <<handlerVars, extractVars>>

CallIn == \E s \in ScanIds : CallHandler(s)

IndexResolveIn ==
    \E s \in ScanIds, resp \in PairResponses :
        IndexResolvesIn(s, resp,
                        AfterIndex(fetchSnapshots(resp), Flags(s).clientConnected,
                                   scans[s].data.keyword))

DelayEndIn == \E s \in ScanIds : DelayEndsIn(s)

ReplayResolveIn ==
    \E s \in ScanIds, outcome \in PairOutcomes :
        /\ scans[s].pc = "fetch"
        /\ ReplayResolvesIn(s, outcome,
                            SnapshotMatches(outcome, scans[s].data.keyword,
                                            scans[s].snapshots[scans[s].i + 1]))

ClientCloseIn == \E s \in ScanIds : ClientClosesIn(s)

NextPair == CallIn \/ IndexResolveIn \/ DelayEndIn \/ ReplayResolveIn \/ ClientCloseIn

SpecPair == Init /\ [][NextPair]_vars

(***************************************************************************)
(* One call of extractData, one pattern.exec at a time.  A step runs from  *)
(* one exec to the next: it pushes the match that exec found and moves     *)
(* lastIndex, or, when exec returned null, leaves the loop for the next    *)
(* one that the call enters.                                               *)
(***************************************************************************)
\* The longest text a zone of the searched page holds, the marker aside.
MaxLen == 3

Alphabet == {"a", "A", "b", ".", " "}

Texts == UNION { [1..n -> Alphabet] : n \in 0..MaxLen }

ExKeywords == { <<>>, <<"a">>, <<"a", "a">>, <<".">>, <<".", ".">>, <<"a", ".", "b">> }

Layouts == {"text", "scripts", "comments", "all"}

\* The parsed page that holds the text t in the zones of a layout.
PageOf(layout, t) ==
    CASE layout = "text" ->
             [text |-> t, scripts |-> <<>>, comments |-> <<>>]
      [] layout = "scripts" ->
             [text |-> <<>>,
              scripts |-> << [archive |-> TRUE, content |-> t],
                             [archive |-> FALSE, content |-> <<>>],
                             [archive |-> FALSE, content |-> t],
                             [archive |-> FALSE, content |-> <<"b">> \o t] >>,
              comments |-> <<>>]
      [] layout = "comments" ->
             [text |-> <<>>, scripts |-> <<>>,
              comments |-> << t, ArchivedMarker \o t, <<"a">> \o t >>]
      [] OTHER ->
             [text |-> t,
              scripts |-> << [archive |-> FALSE, content |-> t] >>,
              comments |-> << <<" ">> \o ArchivedMarker \o <<" ">> \o t, t >>]

\* new RegExp(escapedKeyword, 'gi')
ExPattern == CompileRegExp(escapeKeyword(exArgs.keyword))

\* The text a find-all loop searches: textContent, a script's scriptContent,
\* a comment's body.
ZoneText(html, zone, item) ==
    CASE zone = "text" -> Trim(CollapseSpaces(html.text))
      [] zone = "js" -> KeptScripts(html.scripts)[item]
      [] zone = "comment" -> html.comments[item]
      [] OTHER -> <<>>

MatchType(zone) ==
    CASE zone = "text" -> "TEXT"
      [] zone = "js" -> "JS"
      [] OTHER -> "COMMENT"

\* A comment scan that skips no comment.
IsWaybackComment_Never(comment) == FALSE

\* if (comment.includes("FILE ARCHIVED ON")) continue;
IsWaybackComment(comment) == Includes(comment, ArchivedMarker)

\* The snippet of the match at index in the text of a zone.
Snippet(zone, text, keyword, index) ==
    CASE zone = "text" ->
             Ellipsis \o NewlinesToSpaces(Context(text, keyword, index)) \o Ellipsis
      [] zone = "js" ->
             Ellipsis \o Trim(NewlinesToSpaces(Context(text, keyword, index)))
             \o Ellipsis
      [] OTHER ->
             Ellipsis \o Trim(Context(text, keyword, index)) \o Ellipsis

\* A call that searches the comments before the scripts.
ZoneAfter_CommentsFirst(zone) ==
    CASE zone = "text" -> "comment"
      [] zone = "comment" -> "js"
      [] OTHER -> "returned"

\* The order of the sections of extractData: 2. text, 3. scripts, 4. comments.
ZoneAfter(zone) ==
    CASE zone = "text" -> "js"
      [] zone = "js" -> "comment"
      [] OTHER -> "returned"

\* The find-all loop the call enters next, looking from the given script or
\* comment on: a script without content and a Wayback comment have none.
RECURSIVE LoopFrom(_, _, _)
LoopFrom(html, zone, item) ==
    CASE zone = "js" ->
             IF item > Len(KeptScripts(html.scripts))
             THEN LoopFrom(html, ZoneAfter(zone), 1)
             ELSE IF KeptScripts(html.scripts)[item] = <<>>
             THEN LoopFrom(html, zone, item + 1)
             ELSE [zone |-> zone, item |-> item]
      [] zone = "comment" ->
             IF item > Len(html.comments)
             THEN LoopFrom(html, ZoneAfter(zone), 1)
             ELSE IF IsWaybackComment(html.comments[item])
             THEN LoopFrom(html, zone, item + 1)
             ELSE [zone |-> zone, item |-> item]
      [] OTHER -> [zone |-> zone, item |-> 0]

\* The loop entered when the loop of (zone, item) has ended.
LoopAfter(html, zone, item) ==
    IF zone = "text" THEN LoopFrom(html, ZoneAfter(zone), 1)
    ELSE LoopFrom(html, zone, item + 1)

\* extractData is called on a page and a keyword and reaches its first exec.
CallExtract ==
    /\ exPc = "idle"
    /\ \E layout \in Layouts, t \in Texts, kw \in ExKeywords :
          exArgs' = [html |-> PageOf(layout, t), keyword |-> kw,
                     timestamp |-> "20200101",
                     archiveUrl |-> archiveUrlOf([timestamp |-> "20200101",
                                                  original |-> "http://example.com/"])]
    /\ exPc' = "text"
    /\ exItem' = 0
    /\ exLastIndex' = 0
    /\ exMatches' = <<>>
    /\ exFound' = <<>>
    /\ UNCHANGED <<handlerVars, pairVars>>

\* One evaluation of the condition of a find-all loop, with its body when
\* exec found a match at index, and with what follows the loop when it
\* returned null.
ExecStep(text, index, next) ==
    /\ IF index = -1
       THEN /\ exPc' = next.zone
            /\ exItem' = next.item
            /\ exLastIndex' = 0
            /\ UNCHANGED <<exMatches, exFound>>
       ELSE /\ \E snippet \in {Snippet(exPc, text, exArgs.keyword, index)} :
                  exMatches' =
                      Append(exMatches,
                             ScanMatch(exArgs.timestamp, exArgs.archiveUrl,
                                       MatchType(exPc), snippet))
            /\ exFound' = Append(exFound, [zone |-> exPc, item |-> exItem,
                                           index |-> index])
            /\ exLastIndex' = LastIndexAfter(index, Len(ExPattern))
            /\ UNCHANGED <<exPc, exItem>>
    /\ UNCHANGED <<exArgs, handlerVars, pairVars>>

ExecIn(zone) ==
    /\ exPc = zone
    /\ \E text \in {ZoneText(exArgs.html, zone, exItem)}, pattern \in {ExPattern} :
          \E index \in {RegExpExec(text, pattern, exLastIndex)},
             next \in {LoopAfter(exArgs.html, zone, exItem)} :
              ExecStep(text, index, next)

\* Lines 74-90.
ExecText == ExecIn("text")

\* Lines 93-117.
ExecScript == ExecIn("js")

\* Lines 124-150.
ExecComment == ExecIn("comment")

NextExtract == CallExtract \/ ExecText \/ ExecScript \/ ExecComment

\* The call is synchronous: once made it runs on until it returns.
ExtractRuns == WF_vars(ExecText \/ ExecScript \/ ExecComment)

SpecExtract == Init /\ [][NextExtract]_vars /\ ExtractRuns

(***************************************************************************)
(* Properties.                                                             *)
(***************************************************************************)
Positions == 1..Len(events)

IsMatch(e) == e.type = "match"

IsCounted(e) == e.type = "progress" /\ "currentSnapshot" \in DOMAIN e

\* A "Scanning snapshot" progress event.
IsScanning(e) == IsCounted(e) /\ e.currentSnapshot >= 1

IsFailure(kind) == kind \in ReplayFailures

\* The number of the snapshot whose "Scanning snapshot" event most recently
\* precedes position p (0 when there is none).
ScanningBefore(p) ==
    LET before == {q \in 1..(p - 1) : IsScanning(events[q])}
    IN  IF before = {} THEN 0
        ELSE events[CHOOSE q \in before : \A r \in before : r <= q].currentSnapshot

\* C1: every match event is preceded by the "Scanning snapshot" progress
\* event of the snapshot it came from, and by the progress event of no later
\* snapshot: the matches of snapshot n are all written before the progress
\* event of snapshot n + 1.
C1_MatchesFollowOwnProgress ==
    \A p \in Positions :
        IsMatch(events[p]) =>
            /\ origin[p] >= 1
            /\ \E q \in 1..(p - 1) :
                  /\ IsScanning(events[q])
                  /\ events[q].currentSnapshot = origin[p]
                  /\ events[q].message =
                        "Scanning snapshot: "
                        \o TemplateStr(snapshots[origin[p]].timestamp) \o "..."
            /\ \A q \in 1..(p - 1) :
                  IsCounted(events[q]) => events[q].currentSnapshot <= origin[p]

\* Matches of snapshot 1, then the progress event of snapshot 2, then
\* matches of snapshot 2.
C1_Witness ==
    \E p, q, r \in Positions :
        /\ p < q /\ q < r
        /\ IsMatch(events[p]) /\ origin[p] = 1
        /\ IsScanning(events[q]) /\ events[q].currentSnapshot = 2
        /\ IsMatch(events[r]) /\ origin[r] = 2

\* C2: the complete event of a scan over a non-empty snapshot list says
\* "Scan complete." when at least one match event was written and
\* "Scan finished. No matches found." when none was.
C2_CompletionMessage ==
    \A p \in Positions :
        (events[p].type = "complete" /\ Len(snapshots) > 0) =>
            /\ pc = "done"
            /\ p = Len(events)
            /\ events[p].message =
                  IF \E q \in Positions : IsMatch(events[q])
                  THEN "Scan complete."
                  ELSE "Scan finished. No matches found."

\* A completed scan of two snapshots of which only the second had matches.
C2_Witness ==
    /\ pc = "done"
    /\ Len(snapshots) = 2
    /\ outcomes[1] = "ok"
    /\ \E p \in Positions : IsMatch(events[p])
    /\ \A p \in Positions : IsMatch(events[p]) => origin[p] = 2
    /\ events[Len(events)].message = "Scan complete."

\* The index request has resolved and fetchSnapshots returned no snapshot.
IndexReturnedNone == indexResp.kind # "none" /\ Len(snapshots) = 0

\* C3 as claimed: when the index returns zero snapshots the whole event
\* stream is the one complete event "No snapshots found for this criteria.".
C3_OnlyCompleteEvent ==
    IndexReturnedNone => events = <<NoSnapshotsEvent>>

\* C3: when the index returns zero snapshots the whole event stream is the
\* "Contacting Wayback Machine" progress event followed by the complete
\* event "No snapshots found for this criteria.", and the response is ended.
C3_ContactingThenComplete ==
    IndexReturnedNone =>
        /\ events = <<ContactingEvent(data.domain), NoSnapshotsEvent>>
        /\ events[2].message = "No snapshots found for this criteria."
        /\ pc = "done"
        /\ resEnded = 1

\* The index answered its header row only.
C3_Witness ==
    /\ indexResp.kind = "array"
    /\ Len(indexResp.rows) = 1
    /\ pc = "done"
    /\ Len(events) = 2

\* The number of the snapshot in whose iteration the 'close' callback ran
\* (0: during the index request).
ClosedDuring ==
    Cardinality({q \in 1..closedAt : IsScanning(events[q])})

\* C4 as claimed: nothing is written once the 'close' callback has run.
C4_NoEventAfterClose ==
    closedAt # -1 => Len(events) = closedAt

\* C4: once the caller has disconnected the scan starts no further
\* snapshot and writes no error event: what is written after the 'close'
\* callback is only what the segment in flight still writes, that is the
\* "Analyzing" progress event or the no-snapshots complete event when the
\* index request was in flight, the match events of the snapshot in flight,
\* and the complete event when that snapshot was the last one.  After the
\* disconnect check has returned nothing more is written.
C4_OnlyInFlightEventsAfterClose ==
    closedAt # -1 =>
        /\ \A p \in (closedAt + 1)..Len(events) :
              /\ ~IsScanning(events[p])
              /\ events[p].type # "error"
              /\ IsMatch(events[p]) => origin[p] = ClosedDuring
              /\ IsCounted(events[p]) => ClosedDuring = 0
              /\ events[p].type = "complete" => ClosedDuring = Len(snapshots)
        /\ Len(outbound) <= 1 + ClosedDuring
        /\ pc = "aborted" => i = ClosedDuring /\ resEnded = 0

\* The caller disconnected during the first of two snapshots, whose matches
\* were written nevertheless, and the scan returned at the disconnect check.
C4_Witness ==
    /\ closedAt # -1
    /\ pc = "aborted"
    /\ Len(snapshots) = 2
    /\ Len(events) > closedAt
    /\ IsMatch(events[Len(events)])

\* C5: when the caller disconnects during the iteration of snapshot n and a
\* snapshot n + 1 exists, no progress or match event of a later snapshot is
\* written, no replay fetch of a later snapshot is issued and no complete
\* event is written; the delay and the fetch of snapshot n are not cut
\* short: when the scan returns at the disconnect check the fetch of
\* snapshot n has been issued and has resolved.
C5_CancelAtNextIteration ==
    (closedAt # -1 /\ ClosedDuring >= 1 /\ ClosedDuring < Len(snapshots)) =>
        /\ \A p \in Positions :
              /\ IsCounted(events[p]) => events[p].currentSnapshot <= ClosedDuring
              /\ IsMatch(events[p]) => origin[p] <= ClosedDuring
              /\ events[p].type # "complete"
        /\ Len(outbound) <= 1 + ClosedDuring
        /\ pc \in {"sleep", "fetch", "aborted"}
        /\ pc = "aborted" =>
              /\ Len(outbound) = 1 + ClosedDuring
              /\ outbound[Len(outbound)] = ReplayRequest(snapshots[ClosedDuring])
              /\ Len(outcomes) = ClosedDuring

\* The caller disconnected during the iteration of the first of two
\* snapshots, whose fetch was issued and resolved, and the scan has returned
\* at the disconnect check of the second.
C5_Witness ==
    /\ closedAt # -1
    /\ ClosedDuring = 1
    /\ Len(snapshots) = 2
    /\ pc = "aborted"
    /\ Len(outcomes) = 1
    /\ outbound[Len(outbound)] = ReplayRequest(snapshots[1])

\* C6: a failed snapshot produces no error event and does not end the scan:
\* a scan whose caller stays connected writes the progress event of every
\* snapshot, in order, and ends with a complete event; when every snapshot
\* failed it writes no match event and ends with
\* "Scan finished. No matches found.".
C6_FailuresAreSkipped ==
    /\ \A p \in Positions : events[p].type # "error"
    /\ \A n \in 1..Len(outcomes) :
          IsFailure(outcomes[n]) =>
              \A p \in Positions : IsMatch(events[p]) => origin[p] # n
    /\ (closedAt = -1 /\ Len(snapshots) > 0 /\ pc \notin {"idle", "indexFetch"}) =>
          /\ pc \in {"sleep", "fetch", "done"}
          /\ pc \in {"sleep", "fetch"} =>
                /\ i < Len(snapshots)
                /\ Len(outcomes) = i
                /\ ScanningBefore(Len(events) + 1) = i + 1
          /\ pc = "done" =>
                /\ Len(outcomes) = Len(snapshots)
                /\ \A n \in 1..Len(snapshots) :
                      \E p \in Positions :
                          IsScanning(events[p]) /\ events[p].currentSnapshot = n
                /\ events[Len(events)].type = "complete"
                /\ (\A n \in 1..Len(outcomes) : IsFailure(outcomes[n])) =>
                      /\ \A p \in Positions : ~IsMatch(events[p])
                      /\ events[Len(events)].message =
                            "Scan finished. No matches found."

\* A completed scan whose first snapshot's extraction threw and whose second
\* snapshot had matches.
C6_Witness ==
    /\ pc = "done"
    /\ closedAt = -1
    /\ Len(snapshots) = 2
    /\ outcomes = <<"extractfail", "ok">>
    /\ \E p \in Positions : IsMatch(events[p]) /\ origin[p] = 2

\* A row that does not give a timestamp and an original.
MalformedRow(row) == ~row.iterable \/ Len(row.cells) < 2

\* C7: fetchSnapshots returns the empty sequence for a failed request, a
\* body that is no array, an empty or header-only array and an array with a
\* malformed row, and otherwise the rows after the header row, in order, as
\* (timestamp, original).
C7_FetchSnapshotsResult ==
    indexResp.kind # "none" =>
        snapshots =
            IF \/ indexResp.kind # "array"
               \/ Len(indexResp.rows) <= 1
               \/ \E k \in 2..Len(indexResp.rows) : MalformedRow(indexResp.rows[k])
            THEN <<>>
            ELSE [k \in 1..(Len(indexResp.rows) - 1) |->
                    [timestamp |-> indexResp.rows[k + 1].cells[1],
                     original |-> indexResp.rows[k + 1].cells[2]]]

\* The replay URL the description gives for a snapshot.
ExpectedUrl(snapshot) ==
    "https://web.archive.org/web/" \o TemplateStr(snapshot.timestamp)
    \o "/" \o TemplateStr(snapshot.original)

\* C8: every match event carries the timestamp of the snapshot whose
\* "Scanning snapshot" event most recently precedes it and the replay URL
\* built from that snapshot's timestamp and original, and the replay URL of
\* no snapshot of the list that differs from it.
C8_MatchCarriesOwnSnapshot ==
    \A p \in Positions :
        IsMatch(events[p]) =>
            LET n == ScanningBefore(p)
            IN  /\ n >= 1
                /\ events[p].match.timestamp = snapshots[n].timestamp
                /\ events[p].match.archiveUrl = ExpectedUrl(snapshots[n])
                /\ \A m \in 1..Len(snapshots) :
                      snapshots[m] # snapshots[n] =>
                          events[p].match.archiveUrl # ExpectedUrl(snapshots[m])

\* A match of the second snapshot of a list whose first snapshot differs.
C8_Witness ==
    \E p \in Positions :
        /\ IsMatch(events[p])
        /\ ScanningBefore(p) = 2
        /\ snapshots[1].timestamp # snapshots[2].timestamp
        /\ events[p].match.timestamp = "20200202"

ErrorEvents == {p \in Positions : events[p].type = "error"}

\* C9 as claimed: a failure outside the per-snapshot try, the set-up of the
\* event stream included, gives exactly one error event, no complete event,
\* and the stream is ended.
C9_EveryFailureGivesErrorEvent ==
    thrownAt \in {"setup", "top"} =>
        /\ Cardinality(ErrorEvents) = 1
        /\ \A p \in Positions : events[p].type # "complete"
        /\ resEnded = 1

\* C9: a failure thrown inside the top-level try and outside the
\* per-snapshot try is caught once: exactly one error event is written, it
\* carries a message and is the last event, no complete event is written
\* and the response is ended once.  A failure of the validation or of the
\* set-up of the event stream (lines 162-194) is thrown before the try: no
\* event is written and the response is not ended.  No other scan writes an
\* error event.
C9_TopLevelCatch ==
    /\ thrownAt = "top" =>
          /\ pc = "done"
          /\ ErrorEvents = {Len(events)}
          /\ events[Len(events)].error \in {"write failed", "An unknown error occurred"}
          /\ \A p \in Positions : events[p].type # "complete"
          /\ resEnded = 1
    /\ thrownAt = "setup" =>
          /\ pc = "unhandled"
          /\ events = <<>>
          /\ resEnded = 0
    /\ thrownAt \in {"none", "inner"} => ErrorEvents = {}

\* The write of a progress or complete event threw after the matches of a
\* snapshot had been written.
C9_Witness ==
    /\ thrownAt = "top"
    /\ Len(events) >= 4
    /\ IsMatch(events[Len(events) - 1])
    /\ events[Len(events)].type = "error"

\* The request does not pass scanRequestSchema.
FailsValidation(q) == ~scanRequestSchema(ParseInput(q)).success

\* C10: a request whose parameters fail validation is answered 400 with
\* {error: "Invalid parameters"}: no event-stream header is set, no event is
\* written, no 'close' listener is registered and no outbound request is
\* issued.
C10_RejectedBeforeStream ==
    (pc # "idle" /\ FailsValidation(req)) =>
        /\ pc = "rejected"
        /\ resStatus = 400
        /\ resBody = <<[error |-> "Invalid parameters"]>>
        /\ resEnded = 1
        /\ resHeaders = {}
        /\ events = <<>>
        /\ ~closeListener
        /\ outbound = <<>>

\* A request with limit=0 has been rejected.
C10_Witness ==
    /\ pc = "rejected"
    /\ req.domain = "example.com"
    /\ req.keyword = <<"a">>
    /\ req.limit = "0"
    /\ resStatus = 400

\* The complete and error events of the stream.
TerminalEvents == {p \in Positions : events[p].type \in {"complete", "error"}}

\* The handler has set up the event stream (lines 180-194) and has not returned.
ScanRunning == closeListener /\ pc \in {"indexFetch", "sleep", "fetch"}

\* At most one terminal event is written, it is the last event, and the
\* response is ended once, by the segment that wrote it and by no other.
OneTerminalEvent ==
    /\ Cardinality(TerminalEvents) <= 1
    /\ \A p \in TerminalEvents : p = Len(events)
    /\ closeListener => (resEnded = Cardinality(TerminalEvents))
    /\ closeListener => (pc = "done" <=> TerminalEvents # {})

\* C11: a scan whose caller stays connected terminates when every outbound
\* request resolves or times out: it writes one terminal event (complete or
\* error, not both, not two of either), which is its last event, and the
\* response is ended exactly once, together with it.
C11_TerminatesWithOneTerminalEvent ==
    /\ []OneTerminalEvent
    /\ (ScanRunning ~> (pc = "done" \/ closedAt # -1))

\* A scan of two snapshots, one write of which threw inside the per-snapshot
\* try, whose caller stayed connected and which ended with its complete event.
C11_Witness ==
    /\ pc = "done"
    /\ closedAt = -1
    /\ thrownAt = "inner"
    /\ Len(snapshots) = 2
    /\ events[Len(events)].type = "complete"
    /\ resEnded = 1

\* The caller of a scan was connected when the segment after its m-th await
\* ran, given the number of segments that preceded its disconnect.
ConnectedAt(closed, m) == closed = -1 \/ closed > m

\* The events a scan running alone writes after the replay fetches n + 1, ...
\* have resolved as outs says, having found matches before or not.
RECURSIVE AloneReplays(_, _, _, _, _, _)
AloneReplays(snaps, keyword, outs, closed, n, found) ==
    IF n >= Len(outs) THEN <<>>
    ELSE LET matches == SnapshotMatches(outs[n + 1], keyword, snaps[n + 1])
         IN  AfterReplay(snaps, n, outs[n + 1], matches, ConnectedAt(closed, n + 1),
                         found, 0, NoThrow).writes
             \o AloneReplays(snaps, keyword, outs, closed, n + 1,
                             found \/ Len(matches) > 0)

\* The event stream of a scan running alone on the inputs, the fetch
\* outcomes and the disconnect of scan.
AloneEvents(scan) ==
    IF scan.pc = "idle" THEN <<>>
    ELSE <<ContactingEvent(scan.data.domain)>>
         \o (IF scan.index.kind = "none" THEN <<>>
              ELSE AfterIndex(fetchSnapshots(scan.index), ConnectedAt(scan.closedAt, 0),
                              scan.data.keyword).writes
                   \o AloneReplays(fetchSnapshots(scan.index), scan.data.keyword,
                                   scan.outcomes, scan.closedAt, 0, FALSE))

\* C12: with two scans interleaved, the event stream of each scan is the one
\* it writes running alone on its own inputs, fetch outcomes and disconnect;
\* its disconnected flag is set by its own caller's disconnect only and its
\* found-any flag by its own matches only.
C12_ScansAreIsolated ==
    \A s \in ScanIds :
        /\ scans[s].events = AloneEvents(scans[s])
        /\ scans[s].pc # "idle" =>
              (Flags(s).clientConnected <=> scans[s].closedAt = -1)
        /\ Len(scans[s].snapshots) > 0 =>
              (Flags(s).foundAny <=>
                  \E p \in 1..Len(scans[s].events) : IsMatch(scans[s].events[p]))

\* Scan 1 was disconnected and returned at its disconnect check, scan 2 had
\* a failed fetch, then matches, and completed; scan 1 found nothing.
C12_Witness ==
    /\ scans[1].pc = "aborted"
    /\ scans[1].closedAt = 1
    /\ \A p \in 1..Len(scans[1].events) : ~IsMatch(scans[1].events[p])
    /\ scans[2].pc = "done"
    /\ scans[2].closedAt = -1
    /\ Len(scans[2].outcomes) = 2
    /\ scans[2].outcomes[1].kind = "reject"
    /\ scans[2].events[Len(scans[2].events)].message = "Scan complete."

\* The outbound requests that have resolved.
Resolved == (IF indexResp.kind = "none" THEN 0 ELSE 1) + Len(outcomes)

\* The outbound requests in flight.
InFlight == Len(outbound) - Resolved

\* The handler has passed the validation and has not thrown in the set-up.
ScanStarted == pc \notin {"idle", "rejected", "unhandled"}

\* At most one request is in flight; the first request of a scan is its
\* only index query; the k-th replay fetch asks for the k-th snapshot of the
\* index, after that snapshot's progress event; the progress event of a
\* snapshot is written only when the fetches of the snapshots before it have
\* been issued.
OneRequestAtATime ==
    /\ InFlight \in {0, 1}
    /\ InFlight = 1 <=> pc \in {"indexFetch", "fetch"}
    /\ ScanStarted <=> Len(outbound) >= 1
    /\ \A k \in 1..Len(outbound) :
          IF k = 1
          THEN outbound[k] = IndexRequest(data.domain, data.year, data.limit)
          ELSE /\ outbound[k].to # CDX_API
               /\ k - 1 <= Len(snapshots)
               /\ outbound[k] = [to |-> ExpectedUrl(snapshots[k - 1]), timeout |-> 60000]
               /\ \E p \in Positions :
                     /\ IsScanning(events[p])
                     /\ events[p].currentSnapshot = k - 1
    /\ \A p \in Positions :
          IsCounted(events[p]) => events[p].currentSnapshot <= Len(outbound)
    /\ pc = "sleep" => Len(outbound) = i + 1 /\ ScanningBefore(Len(events) + 1) = i + 1
    /\ pc = "fetch" => Len(outbound) = i + 2 /\ Len(outcomes) = i

\* A replay fetch is issued by the step that ends a politeness delay, and
\* the resolution of a fetch, failed or not, moves on to the next snapshot.
DelayBeforeFetch ==
    /\ (Len(outbound') > Len(outbound) /\ Len(outbound) >= 1) =>
          pc = "sleep" /\ pc' = "fetch" /\ Len(outbound') = Len(outbound) + 1
    /\ Len(outcomes') > Len(outcomes) => i' = i + 1

\* C13: a scan queries the index once and fetches its snapshots one at a
\* time: at most one outbound request is in flight, every replay fetch
\* follows its snapshot's progress event and a politeness delay, the
\* snapshots are fetched in index order and each at most once, a failed
\* fetch included.
C13_SequentialFetches == []OneRequestAtATime /\ [][DelayBeforeFetch]_vars

\* Both snapshots of a scan were fetched, the first fetch having failed.
C13_Witness ==
    /\ pc = "done"
    /\ Len(snapshots) = 2
    /\ Len(outbound) = 3
    /\ outcomes[1] = "timeout"
    /\ outbound[3] = ReplayRequest(snapshots[2])

\* The find-all loops a call of extractData runs on a page: one on the text
\* of the body, one for every script that has content, one for every comment
\* that does not hold the marker.
SearchedLoops(html) ==
    {[zone |-> "text", item |-> 0]}
    \cup { [zone |-> "js", item |-> n] :
               n \in {m \in 1..Len(KeptScripts(html.scripts)) :
                          KeptScripts(html.scripts)[m] # <<>>} }
    \cup { [zone |-> "comment", item |-> n] :
               n \in {m \in 1..Len(html.comments) :
                          ~Includes(html.comments[m], ArchivedMarker)} }

\* The matches pushed by the loop of a zone, as positions of exFound.
PushedBy(loop) ==
    {k \in 1..Len(exFound) : exFound[k].zone = loop.zone /\ exFound[k].item = loop.item}

\* The indexes at which the loop of a zone reported a match.
HitsIn(loop) == {exFound[k].index : k \in PushedBy(loop)}

\* The keyword stands in the text at the 0-based position p, character for
\* character up to letter case.
OccursAt(text, kw, p) ==
    /\ p + Len(kw) <= Len(text)
    /\ \A k \in 1..Len(kw) : Fold(text[p + k]) = Fold(kw[k])

Occurrences(text, kw) == {p \in 0..Len(text) : OccursAt(text, kw, p)}

Returned == exPc = "returned"

\* C14 as claimed: for a non-empty keyword the number of matches of a zone
\* is the number of positions at which the keyword occurs in its text,
\* overlapping occurrences included.
C14_CountsOverlapping ==
    (Returned /\ exArgs.keyword # <<>>) =>
        \A loop \in SearchedLoops(exArgs.html) :
            Cardinality(PushedBy(loop)) =
                Cardinality(Occurrences(ZoneText(exArgs.html, loop.zone, loop.item),
                                        exArgs.keyword))

\* C14: for a non-empty keyword the matches of a zone are the occurrences of
\* the keyword in its text that do not overlap an occurrence counted before
\* them: the search goes on from the end of the last match, so that two
\* matches are at least the length of the keyword apart, adjacent
\* occurrences are each counted, and an occurrence is left out only when it
\* starts inside a counted one.
C14_CountsNonOverlapping ==
    (Returned /\ exArgs.keyword # <<>>) =>
        \A loop \in SearchedLoops(exArgs.html) :
            LET hits == HitsIn(loop)
                occ == Occurrences(ZoneText(exArgs.html, loop.zone, loop.item),
                                   exArgs.keyword)
                width == Len(exArgs.keyword)
            IN  /\ Cardinality(PushedBy(loop)) = Cardinality(hits)
                /\ hits \subseteq occ
                /\ \A g, h \in hits : g < h => g + width <= h
                /\ \A p \in occ \ hits : \E h \in hits : h < p /\ p < h + width

\* The keyword "aa" was searched in the text "aaa" and gave one match.
C14_Witness ==
    /\ Returned
    /\ exArgs.keyword = <<"a", "a">>
    /\ exArgs.html.text = <<"a", "a", "a">>
    /\ exArgs.html.scripts = <<>>
    /\ exFound = <<[zone |-> "text", item |-> 0, index |-> 0]>>

\* Within a loop every exec that finds a match moves the cursor forward, by
\* one past an empty match, and the cursor stays within the text.
CursorAdvances ==
    (exPc' = exPc /\ exItem' = exItem /\ exPc \in {"text", "js", "comment"}) =>
        /\ Len(exFound') = Len(exFound) + 1
        /\ exLastIndex' > exLastIndex
        /\ exLastIndex' > exFound'[Len(exFound')].index
        /\ exArgs.keyword = <<>> => exLastIndex' = exFound'[Len(exFound')].index + 1
        /\ exLastIndex' <= Len(ZoneText(exArgs.html, exPc, exItem)) + 1

\* The text of the body is made of copies of the one-character keyword.
CopiesOfKeyword ==
    /\ Len(exArgs.keyword) = 1
    /\ exArgs.html.text # <<>>
    /\ \A k \in 1..Len(exArgs.html.text) :
          Fold(exArgs.html.text[k]) = Fold(exArgs.keyword[1])

\* The matches of a call that has returned: n matches on n copies of a
\* one-character keyword, and for the empty keyword one empty match at
\* every position of every text searched, its end included.
CountsAtReturn ==
    Returned =>
        /\ CopiesOfKeyword =>
              Cardinality(PushedBy([zone |-> "text", item |-> 0]))
                  = Len(exArgs.html.text)
        /\ exArgs.keyword = <<>> =>
              \A loop \in SearchedLoops(exArgs.html) :
                  /\ HitsIn(loop) = 0..Len(ZoneText(exArgs.html, loop.zone, loop.item))
                  /\ Cardinality(PushedBy(loop)) = Cardinality(HitsIn(loop))

\* C15: a call of extractData returns for every page and every keyword, the
\* empty keyword with its zero-width matches included: every match moves
\* the cursor of its loop forward, by one after a zero-width match, and a
\* text of n adjacent copies of a one-character keyword gives n matches.
C15_FindAllTerminates ==
    /\ ((exPc # "idle") ~> Returned)
    /\ [][CursorAdvances]_vars
    /\ []CountsAtReturn

\* The keyword "a" was searched in the text "aaa" and gave three matches.
C15_Witness ==
    /\ Returned
    /\ exArgs.keyword = <<"a">>
    /\ exArgs.html.text = <<"a", "a", "a">>
    /\ exArgs.html.scripts = <<>>
    /\ exArgs.html.comments = <<>>
    /\ Len(exMatches) = 3

ZoneRank(zone) ==
    CASE zone = "text" -> 1
      [] zone = "js" -> 2
      [] OTHER -> 3

\* C16: the matches of a call are ordered by zone, TEXT before JS before
\* COMMENT; the matches of a zone are ordered by script or comment and,
\* within one, by increasing position; the sequence the call returns is the
\* one the scan emits.
C16_OrderedByZone ==
    /\ Len(exMatches) = Len(exFound)
    /\ \A k \in 1..Len(exFound) :
          exMatches[k].matchType =
              (CASE exFound[k].zone = "text" -> "TEXT"
                 [] exFound[k].zone = "js" -> "JS"
                 [] OTHER -> "COMMENT")
    /\ \A j, k \in 1..Len(exFound) :
          j < k =>
              /\ ZoneRank(exFound[j].zone) <= ZoneRank(exFound[k].zone)
              /\ exFound[j].zone = exFound[k].zone =>
                    /\ exFound[j].item <= exFound[k].item
                    /\ exFound[j].item = exFound[k].item =>
                          exFound[j].index < exFound[k].index
    /\ Returned =>
          exMatches = extractData(exArgs.html, exArgs.keyword, exArgs.timestamp,
                                  exArgs.archiveUrl)

\* A call returned two TEXT matches, then two JS matches, then two COMMENT
\* matches.
C16_Witness ==
    /\ Returned
    /\ Len(exMatches) = 6
    /\ exMatches[2].matchType = "TEXT"
    /\ exMatches[3].matchType = "JS"
    /\ exMatches[4].matchType = "JS"
    /\ exMatches[5].matchType = "COMMENT"
    /\ exFound[5].index < exFound[6].index

\* The keyword holds a character that is special in a regular expression.
HasMetacharacter(kw) == \E k \in 1..Len(kw) : kw[k] \in RegexMeta

\* C17 as claimed: for a keyword with metacharacters a match is reported at
\* a position if and only if the text at that position equals the keyword
\* up to letter case.
C17_MatchIffLiteral ==
    (Returned /\ HasMetacharacter(exArgs.keyword)) =>
        \A loop \in SearchedLoops(exArgs.html) :
            \A p \in 0..Len(ZoneText(exArgs.html, loop.zone, loop.item)) :
                p \in HitsIn(loop) <=>
                    OccursAt(ZoneText(exArgs.html, loop.zone, loop.item),
                             exArgs.keyword, p)

\* C17: a keyword with metacharacters is matched as literal text: a match
\* is reported only where the text equals the keyword character for
\* character up to letter case, and it is reported at every such position
\* that does not lie inside the match reported before it.
C17_MatchesLiterally ==
    HasMetacharacter(exArgs.keyword) =>
        /\ \A k \in 1..Len(exFound) :
              OccursAt(ZoneText(exArgs.html, exFound[k].zone, exFound[k].item),
                       exArgs.keyword, exFound[k].index)
        /\ Returned =>
              \A loop \in SearchedLoops(exArgs.html) :
                  \A p \in 0..Len(ZoneText(exArgs.html, loop.zone, loop.item)) :
                      OccursAt(ZoneText(exArgs.html, loop.zone, loop.item),
                               exArgs.keyword, p) =>
                          \E h \in HitsIn(loop) :
                              h <= p /\ p < h + Len(exArgs.keyword)

\* The keyword "a.b" was searched in a script "a.b" and in a script "ba.b"
\* and gave one match in each.
C17_Witness ==
    /\ Returned
    /\ exArgs.keyword = <<"a", ".", "b">>
    /\ Len(exArgs.html.scripts) = 4
    /\ exFound = << [zone |-> "js", item |-> 2, index |-> 0],
                    [zone |-> "js", item |-> 3, index |-> 1] >>

\* C18: a comment that holds "FILE ARCHIVED ON" gives no COMMENT match,
\* whatever it holds besides, and every other comment of the page is
\* searched, those after it included: it gives a match exactly when the
\* keyword occurs in it.
C18_ArchivedCommentSkipped ==
    /\ \A k \in 1..Len(exFound) :
          exFound[k].zone = "comment" =>
              ~Includes(exArgs.html.comments[exFound[k].item], ArchivedMarker)
    /\ \A k \in 1..Len(exMatches) :
          exMatches[k].matchType = "COMMENT" => exFound[k].zone = "comment"
    /\ (Returned /\ exArgs.keyword # <<>>) =>
          \A c \in 1..Len(exArgs.html.comments) :
              ~Includes(exArgs.html.comments[c], ArchivedMarker) =>
                  (HitsIn([zone |-> "comment", item |-> c]) # {}
                      <=> Occurrences(exArgs.html.comments[c], exArgs.keyword) # {})

\* The second of three comments holds the marker and the keyword; the
\* first and the third gave matches.
C18_Witness ==
    /\ Returned
    /\ Len(exArgs.html.comments) = 3
    /\ Includes(exArgs.html.comments[2], ArchivedMarker)
    /\ Occurrences(exArgs.html.comments[2], exArgs.keyword) # {}
    /\ exArgs.keyword # <<>>
    /\ \E j, k \in 1..Len(exFound) :
          /\ exFound[j].zone = "comment" /\ exFound[j].item = 1
          /\ exFound[k].zone = "comment" /\ exFound[k].item = 3

\* C19: the limit caps the result count: fetchSnapshots returns at most
\* limit snapshots whatever the index answers, so the total announced in the
\* progress events and the number of replay fetches of a scan do not exceed
\* the validated limit.
C19_LimitCapsSnapshots ==
    indexResp.kind # "none" =>
        /\ Len(snapshots) <= data.limit
        /\ \A p \in Positions :
              IsCounted(events[p]) => events[p].totalSnapshots <= data.limit
        /\ Len(outbound) - 1 <= data.limit

\* The positions of the progress events that carry counters.
CountedEvents == {p \in Positions : IsCounted(events[p])}

\* C20: the progress events that carry counters count 0, 1, 2, ... without
\* gap or repeat, also past snapshots that failed: the first has
\* currentSnapshot = 0 and is the "Analyzing" event, the j-th after it has
\* currentSnapshot = j; none counts beyond totalSnapshots, which in all of
\* them is the number of snapshots the index returned.
C20_ProgressCounters ==
    \A p \in CountedEvents :
        /\ events[p].currentSnapshot = Cardinality({q \in CountedEvents : q < p})
        /\ events[p].currentSnapshot = 0 <=> events[p] = AnalyzingEvent(snapshots, data.keyword)
        /\ events[p].currentSnapshot <= events[p].totalSnapshots
        /\ events[p].totalSnapshots = Len(snapshots)
        /\ indexResp.kind = "array"
        /\ events[p].totalSnapshots = Len(indexResp.rows) - 1

\* A scan of two snapshots, the first of which failed, has written the
\* counters 0, 1 and 2.
C20_Witness ==
    /\ Len(snapshots) = 2
    /\ Len(outcomes) >= 1
    /\ IsFailure(outcomes[1])
    /\ \E p, q, r \in CountedEvents :
          /\ p < q /\ q < r
          /\ events[p].currentSnapshot = 0
          /\ events[q].currentSnapshot = 1
          /\ events[r].currentSnapshot = 2
          /\ events[r].totalSnapshots = 2

====
